---- MODULE Spec2Model ----
(***************************************************************************)
(* A model of the ray-scene intersection and light-transport core of the   *)
(* renderer: Vec3 algebra, Ray, HitRecord, Sphere::hit, HittableList::hit, *)
(* the three materials and the recursive ray_color estimator.              *)
(*                                                                         *)
(* Numbers.  The source computes in f32.  The model computes in fixed      *)
(* point: the integer n stands for the real n / Unit.  Products and        *)
(* quotients are rounded toward zero, so that, as in IEEE arithmetic,      *)
(* rounding is symmetric in the sign: -(a*b) = (-a)*b.  Square roots are   *)
(* rounded down.  Rays always have a non-zero direction (the camera and    *)
(* the materials of the program never construct a zero direction), so no   *)
(* division by zero and no NaN arises.                                     *)
(***************************************************************************)
EXTENDS Integers, Sequences, FiniteSets, TLC

\* ------------------------------------------------------------------ bounds
\* The longest HittableList of the intersection harness.
MaxObjects == 2
\* The largest bounce budget handed to ray_color.
MaxBounce == 3

\* --------------------------------------------------------------- f32 values
\* The fixed-point representation of the f32 value 1.0.
Unit == 16

\* f32::MAX, the t_max ray_color hands to world.hit: above every distance.
F32_MAX == 1000000
\* 0.001, the t_min ray_color hands to world.hit: the smallest positive value.
T_MIN == 1
\* EPS of Vec3::is_near_zero (1e-8): the smallest positive value.
EPS == 1
\* AIR_REFRACTION_INDEX of Dielectric::scatter (1.0).
AIR_REFRACTION_INDEX == 16
\* The modulus of u16, the type of bounce_limit.
U16 == 65536

\* e's value handed to F: the value is computed once, however often F uses it.
Bind(e, F(_)) == CHOOSE r \in {F(x) : x \in {e}} : TRUE

Abs(x) == IF x < 0 THEN -x ELSE x

\* Integer quotient rounded toward zero.
TDiv(a, b) ==
    Bind(a, LAMBDA x : Bind(b, LAMBDA y :
        IF (x < 0) = (y < 0) THEN Abs(x) \div Abs(y) ELSE -(Abs(x) \div Abs(y))))

\* f32 multiplication.
FMul(a, b) == TDiv(a * b, Unit)

\* f32 division.
FDiv(a, b) == TDiv(a * Unit, b)

\* The integer square root, rounded down.
ISqrtOf[n \in Nat] == CHOOSE k \in 0..n : k * k <= n /\ n < (k + 1) * (k + 1)

ISqrt(n) == ISqrtOf[n]

\* f32::sqrt.
FSqrt(x) == ISqrt(x * Unit)

\* f32::min.
FMin(a, b) == Bind(a, LAMBDA x : Bind(b, LAMBDA y : IF x < y THEN x ELSE y))

\* --------------------------------------------------------------------- Vec3
Vec3(x, y, z) == <<x, y, z>>

Zero == Vec3(0, 0, 0)

Dot(u, v) ==
    Bind(u, LAMBDA a : Bind(v, LAMBDA b :
        FMul(a[1], b[1]) + FMul(a[2], b[2]) + FMul(a[3], b[3])))

LengthSquared(v) ==
    Bind(v, LAMBDA a : FMul(a[1], a[1]) + FMul(a[2], a[2]) + FMul(a[3], a[3]))

Length(v) == FSqrt(LengthSquared(v))

Neg(v) == Bind(v, LAMBDA a : Vec3(-a[1], -a[2], -a[3]))

Add(u, v) ==
    Bind(u, LAMBDA a : Bind(v, LAMBDA b :
        Vec3(a[1] + b[1], a[2] + b[2], a[3] + b[3])))

Sub(u, v) ==
    Bind(u, LAMBDA a : Bind(v, LAMBDA b :
        Vec3(a[1] - b[1], a[2] - b[2], a[3] - b[3])))

\* f32 * Vec3 and Vec3 * f32.
Scale(k, v) ==
    Bind(k, LAMBDA f : Bind(v, LAMBDA w :
        Vec3(FMul(f, w[1]), FMul(f, w[2]), FMul(f, w[3]))))

\* Vec3 * Vec3, component-wise.
MulVec(u, v) ==
    Bind(u, LAMBDA a : Bind(v, LAMBDA b :
        Vec3(FMul(a[1], b[1]), FMul(a[2], b[2]), FMul(a[3], b[3]))))

\* Vec3 / f32.
DivVec(v, k) ==
    Bind(k, LAMBDA f : Bind(v, LAMBDA w :
        Vec3(FDiv(w[1], f), FDiv(w[2], f), FDiv(w[3], f))))

unit_vector(v) == Bind(v, LAMBDA w : DivVec(w, Length(w)))

is_near_zero(v) == Bind(v, LAMBDA a : (a[1] < EPS) /\ (a[2] < EPS) /\ (a[3] < EPS))

White == Vec3(Unit, Unit, Unit)
Grey == Vec3(Unit \div 2, Unit \div 2, Unit \div 2)

\* ------------------------------------------------------------------- random
\* The values a draw of the random source is taken from: rng.gen_range and
\* rng.gen yield any f32 of their range, the model these.
RandomGrid == {-((3 * Unit) \div 4), 0, (3 * Unit) \div 4}

\* rng.gen_range(min..max): a value of [min, max).
GenRange(min, max) == {x \in RandomGrid : min <= x /\ x < max}

\* Vec3::random_range(rng, min, max)
RandomRange(min, max) ==
    {Vec3(x, y, z) : x \in GenRange(min, max), y \in GenRange(min, max),
                     z \in GenRange(min, max)}

\* Vec3::random_in_unit_sphere: the loop returns the first draw inside.
RandomInUnitSphere == {v \in RandomRange(-Unit, Unit) : LengthSquared(v) < Unit}

\* Vec3::random_unit_vector.  The zero draw, of probability zero, is left out:
\* its normalisation is undefined.
RandomUnitVector == {unit_vector(v) : v \in RandomInUnitSphere \ {Zero}}

\* rng.gen::<f32>(): a value of [0, 1).
GenF32 == {0, Unit \div 4, Unit - 1}

\* ---------------------------------------------------------------------- Ray
Ray(origin, direction) == [origin |-> origin, direction |-> direction]

At(r, t) == Add(r.origin, Scale(t, r.direction))

\* ---------------------------------------------------------------- Materials
\* enum Material: the variant and its fields (unused fields are 0).
Material(kind, albedo, fuzz, refraction_index) ==
    [kind |-> kind, albedo |-> albedo, fuzz |-> fuzz,
     refraction_index |-> refraction_index]

LambertianNew(albedo) == Material("Lambertian", albedo, 0, 0)

\* A Metal::new that stores the fuzz it is given.
MetalFuzzUnclamped(fuzz) == fuzz

\* The fuzz Metal::new stores: let mut f = 1.0; if fuzz < 1.0 { f = fuzz }.
MetalFuzz(fuzz) == IF fuzz < Unit THEN fuzz ELSE Unit

MetalNew(albedo, fuzz) == Material("Metal", albedo, MetalFuzz(fuzz), 0)

DielectricNew(refraction_index) == Material("Dielectric", Zero, 0, refraction_index)

\* fn reflect(vec, normal): vec - 2.0 * vec.dot(&normal) * normal
reflect(vec, normal) ==
    Bind(vec, LAMBDA v : Bind(normal, LAMBDA n :
        Sub(v, Scale(FMul(2 * Unit, Dot(v, n)), n))))

\* fn refract(i_ray, normal, refraction_index_src, refraction_index_dst)
refract(i_ray, normal, refraction_index_src, refraction_index_dst) ==
    Bind(FDiv(refraction_index_src, refraction_index_dst), LAMBDA etai_over_etat :
    Bind(FMin(Unit, -Dot(i_ray, normal)), LAMBDA cos_theta :
    Bind(Scale(etai_over_etat, Add(i_ray, Scale(cos_theta, normal))),
         LAMBDA r_out_perp :
    Bind(Scale(-FSqrt(Abs(Unit - LengthSquared(r_out_perp))), normal),
         LAMBDA r_out_parallel :
        Add(r_out_perp, r_out_parallel)))))

\* f32::powi(5)
Pow5(x) == Bind(x, LAMBDA a : FMul(FMul(FMul(FMul(a, a), a), a), a))

\* Dielectric::reflectance: Schlick's approximation.
reflectance(cos, refraction_index_src) ==
    Bind(FDiv(Unit - refraction_index_src, Unit + refraction_index_src), LAMBDA r0 :
    Bind(FMul(r0, r0), LAMBDA r00 :
        r00 + FMul(Unit - r00, Pow5(Unit - cos))))

\* What a scatter call leaves: the returned flag and the two out-parameters.
Scattered(ok, attenuation, scattered_ray) ==
    [ok |-> ok, attenuation |-> attenuation, scattered_ray |-> scattered_ray]

\* The degenerate-direction test of Lambertian::scatter.
DegenerateScatter(v) == is_near_zero(v)

\* Lambertian::scatter with the unit vector `rnd` drawn from the random source.
LambertianScatter(m, in_ray, rec, rnd) ==
    Bind(Add(rec.normal, rnd), LAMBDA sum :
    Bind(IF DegenerateScatter(sum) THEN rec.normal ELSE sum,
         LAMBDA scatter_direction :
        Scattered(TRUE, m.albedo, Ray(rec.point, scatter_direction))))

\* A Metal that never absorbs.
MetalKeepsAlways(direction, normal) == TRUE

\* The flag Metal::scatter returns.
MetalKeeps(direction, normal) == Dot(direction, normal) > 0

\* Metal::scatter with the point `rnd` of the unit ball drawn from the
\* random source.
MetalScatter(m, in_ray, rec, rnd) ==
    Bind(reflect(unit_vector(in_ray.direction), rec.normal), LAMBDA reflected :
    Bind(Ray(rec.point, Add(reflected, Scale(m.fuzz, rnd))), LAMBDA scattered_ray :
        Scattered(MetalKeeps(scattered_ray.direction, rec.normal), m.albedo,
                  scattered_ray)))

\* A Dielectric that reflects only when refraction is impossible.
DielectricReflectsOnlyTotal(cannot_refract, refl, rnd) == cannot_refract

\* The branch condition of Dielectric::scatter: total reflection, or a
\* reflectance above the value drawn.
DielectricReflects(cannot_refract, refl, rnd) == cannot_refract \/ refl > rnd

\* The pair (refraction_index_src, refraction_index_dst) of Dielectric::scatter.
RefractionIndices(m, front_face) ==
    IF front_face THEN <<AIR_REFRACTION_INDEX, m.refraction_index>>
                  ELSE <<m.refraction_index, AIR_REFRACTION_INDEX>>

\* Dielectric::scatter with the value `rnd` of [0, 1) drawn from the random
\* source.  The square root of a negative number is NaN, and a comparison
\* with NaN is false.
DielectricScatter(m, in_ray, rec, rnd) ==
    Bind(RefractionIndices(m, rec.front_face), LAMBDA idxs :
    Bind(FDiv(idxs[1], idxs[2]), LAMBDA refraction_ratio :
    Bind(unit_vector(in_ray.direction), LAMBDA unit_direction :
    Bind(FMin(Dot(Neg(unit_direction), rec.normal), Unit), LAMBDA cos_theta :
    Bind(Unit - FMul(cos_theta, cos_theta), LAMBDA radicand :
    Bind(radicand >= 0 /\ FMul(refraction_ratio, FSqrt(radicand)) > Unit,
         LAMBDA cannot_refract :
    Bind(IF DielectricReflects(cannot_refract,
                               reflectance(cos_theta, refraction_ratio), rnd)
         THEN reflect(unit_direction, rec.normal)
         ELSE refract(unit_direction, rec.normal, idxs[1], idxs[2]),
         LAMBDA direction :
        Scattered(TRUE, White, Ray(rec.point, direction)))))))))

\* The draws a scatter call of material m may take from the random source.
ScatterDraws(m) ==
    CASE m.kind = "Lambertian" -> RandomUnitVector
      [] m.kind = "Metal" -> RandomInUnitSphere
      [] m.kind = "Dielectric" -> GenF32

\* impl Scatterable for Material: the dispatch on the variant.
Scatter(m, in_ray, rec, rnd) ==
    CASE m.kind = "Lambertian" -> LambertianScatter(m, in_ray, rec, rnd)
      [] m.kind = "Metal" -> MetalScatter(m, in_ray, rec, rnd)
      [] m.kind = "Dielectric" -> DielectricScatter(m, in_ray, rec, rnd)

\* ---------------------------------------------------------------- HitRecord
HitRecordEmpty ==
    [point |-> Zero, normal |-> Zero, material |-> LambertianNew(Zero),
     t |-> 0, front_face |-> FALSE]

\* A front_face test with the sign reversed.
FrontFaceReversed(ray, outward_normal) == Dot(ray.direction, outward_normal) > 0

\* self.front_face = ray.direction().dot(outward_normal) < 0.0
FrontFace(ray, outward_normal) == Dot(ray.direction, outward_normal) < 0

\* HitRecord::set_face_normal: the record after the call.
set_face_normal(rec, ray, outward_normal) ==
    Bind(outward_normal, LAMBDA n :
    Bind(FrontFace(ray, n), LAMBDA ff :
        [rec EXCEPT !.front_face = ff,
                    !.normal = IF ff THEN n ELSE Neg(n)]))

\* ------------------------------------------------------------------- Sphere
Sphere(center, radius, material) ==
    [center |-> center, radius |-> radius, material |-> material]

\* The quadratic of Sphere::hit: a, half_b, c and the discriminant.
Quadratic(s, ray) ==
    Bind(Sub(ray.origin, s.center), LAMBDA origin_center :
    Bind(LengthSquared(ray.direction), LAMBDA a :
    Bind(Dot(ray.direction, origin_center), LAMBDA half_b :
    Bind(LengthSquared(origin_center) - FMul(s.radius, s.radius), LAMBDA c :
        [a |-> a, half_b |-> half_b, c |-> c,
         discriminant |-> FMul(half_b, half_b) - FMul(a, c)]))))

\* The roots (-half_b - sqrt(d)) / a and (-half_b + sqrt(d)) / a, d >= 0.
Root1(q) == FDiv(-q.half_b - FSqrt(q.discriminant), q.a)
Root2(q) == FDiv(-q.half_b + FSqrt(q.discriminant), q.a)

\* A range test that leaves the end points out.
OutOfRangeOpen(root, t_min, t_max) == root <= t_min \/ root >= t_max

\* A range test that forgets the upper end.
OutOfRangeNoMax(root, t_min, t_max) == root < t_min

\* root < t_min || root > t_max
OutOfRange(root, t_min, t_max) == root < t_min \/ root > t_max

\* A root selection that tries the far root first.
SelectRootFarFirst(q, t_min, t_max) ==
    IF q.discriminant < 0 THEN <<FALSE, 0>>
    ELSE IF ~OutOfRange(Root2(q), t_min, t_max) THEN <<TRUE, Root2(q)>>
    ELSE IF ~OutOfRange(Root1(q), t_min, t_max) THEN <<TRUE, Root1(q)>>
    ELSE <<FALSE, 0>>

\* The root Sphere::hit accepts: <<found, root>>.
SelectRoot(q, t_min, t_max) ==
    IF q.discriminant < 0 THEN <<FALSE, 0>>
    ELSE IF ~OutOfRange(Root1(q), t_min, t_max) THEN <<TRUE, Root1(q)>>
    ELSE IF ~OutOfRange(Root2(q), t_min, t_max) THEN <<TRUE, Root2(q)>>
    ELSE <<FALSE, 0>>

\* Sphere::hit: the returned flag and the hit record after the call (left
\* as it was when there is no hit).
SphereHit(s, ray, t_min, t_max, rec) ==
    Bind(Quadratic(s, ray), LAMBDA q :
    Bind(SelectRoot(q, t_min, t_max), LAMBDA sel :
        IF ~sel[1] THEN [hit |-> FALSE, rec |-> rec]
        ELSE Bind(At(ray, sel[2]), LAMBDA point :
             Bind(unit_vector(Sub(point, s.center)), LAMBDA outward_normal :
             Bind(set_face_normal([rec EXCEPT !.t = sel[2], !.point = point],
                                  ray, outward_normal), LAMBDA faced :
                 [hit |-> TRUE, rec |-> [faced EXCEPT !.material = s.material]])))))

\* -------------------------------------------------------------------- state
VARIABLES
    world,            \* HittableList.objects, in insertion order
    ray,              \* the ray of the running call
    t_min,            \* HittableList::hit: the caller's t_min
    t_max,            \* HittableList::hit: the caller's t_max
    idx,              \* HittableList::hit: the next object of the for loop
    closest_so_far,   \* HittableList::hit: closest_so_far
    hit_anything,     \* HittableList::hit: hit_anything
    tmp_hit_record,   \* HittableList::hit: tmp_hit_record
    hit_record,       \* the caller's hit record (the out-parameter)
    pc,               \* where the running call stands
    bounce_limit,     \* ray_color: bounce_limit of the running call
    stack,            \* ray_color: the suspended callers, innermost last
    ret,              \* ray_color: the color the last finished call returned
    budget,           \* the bounce budget of the outermost ray_color call
    calls,            \* history: ray_color invocations so far
    queries,          \* history: world.hit queries and scatter calls so far
    last_hit,         \* history: the last Sphere::hit call and its outcome
    accepted,         \* history: the t of each hit accepted by this query
    last_call,        \* history: the last ray_color call that returned
    args,             \* the unit harness: the function called and its inputs
    result,           \* the unit harness: what the call left
    row,              \* main: the rows the reversed range has yet to yield
    col,              \* main: the column of the pixel being rendered
    sample,           \* main: s, the number of samples summed so far
    pixel_color,      \* main: pixel_color
    output,           \* main: the pixels written to output_file, in order
    log               \* history: every sample taken and every pixel written

vars ==
    <<world, ray, t_min, t_max, idx, closest_so_far, hit_anything,
      tmp_hit_record, hit_record, pc, bounce_limit, stack, ret, budget,
      calls, queries, last_hit, accepted, last_call, args, result,
      row, col, sample, pixel_color, output, log>>

scanVars ==
    <<idx, closest_so_far, hit_anything, tmp_hit_record, hit_record,
      last_hit, accepted>>

colorVars == <<bounce_limit, stack, ret, budget, calls, queries, last_call>>

unitVars == <<args, result>>

renderVars == <<row, col, sample, pixel_color, output, log>>

\* The render loop has not been entered.
RenderIdle ==
    /\ row = 0
    /\ col = 0
    /\ sample = 0
    /\ pixel_color = Zero
    /\ output = <<>>
    /\ log = <<>>

NoArgs == [fn |-> "none"]
NoHit == [made |-> FALSE]
NoCall == [made |-> FALSE]

\* --------------------------------------------------------- HittableList::hit
\* The state on entry of HittableList::hit, before the loop.
ScanEntry(rec) ==
    /\ tmp_hit_record' = HitRecordEmpty
    /\ hit_anything' = FALSE
    /\ closest_so_far' = t_max'
    /\ idx' = 1
    /\ hit_record' = rec
    /\ accepted' = <<>>
    /\ last_hit' = NoHit

\* A scan that hands every member the caller's t_max.
ScanUpperCaller == t_max

\* The upper bound handed to the next member: closest_so_far.
ScanUpper == closest_so_far

\* One iteration of: for obj in &self.objects { if obj.hit(...) { ... } }
HitScanStep ==
    /\ pc = "scan"
    /\ idx <= Len(world)
    /\ \E r \in {SphereHit(world[idx], ray, t_min, ScanUpper, tmp_hit_record)} :
           /\ tmp_hit_record' = r.rec
           /\ hit_anything' = (hit_anything \/ r.hit)
           /\ closest_so_far' = IF r.hit THEN r.rec.t ELSE closest_so_far
           /\ hit_record' = IF r.hit THEN r.rec ELSE hit_record
           /\ accepted' = IF r.hit THEN Append(accepted, r.rec.t) ELSE accepted
           /\ last_hit' = [made |-> TRUE, sphere |-> world[idx], t_min |-> t_min,
                           t_max |-> ScanUpper, hit |-> r.hit, t |-> r.rec.t,
                           had |-> hit_anything]
    /\ idx' = idx + 1
    /\ UNCHANGED <<world, ray, t_min, t_max, pc>>
    /\ UNCHANGED colorVars
    /\ UNCHANGED unitVars
    /\ UNCHANGED renderVars

\* The loop is over: HittableList::hit returns hit_anything.
HitScanReturn ==
    /\ pc = "scan"
    /\ idx > Len(world)
    /\ pc' = "scanned"
    /\ UNCHANGED <<world, ray, t_min, t_max>>
    /\ UNCHANGED scanVars
    /\ UNCHANGED colorVars
    /\ UNCHANGED unitVars
    /\ UNCHANGED renderVars

\* ------------------------------------------------- the intersection harness
\* The spheres of the harness: on the x axis, around the origin, off the axis.
HitSpheres ==
    { Sphere(Vec3(3 * Unit, 0, 0), Unit, LambertianNew(Grey)),
      Sphere(Vec3(4 * Unit, 0, 0), 2 * Unit, MetalNew(White, 0)),
      Sphere(Zero, 2 * Unit, DielectricNew((3 * Unit) \div 2)),
      Sphere(Vec3(0, 3 * Unit, 0), Unit, MetalNew(Grey, Unit \div 2)),
      Sphere(Vec3(5 * Unit, 0, 0), Unit, LambertianNew(White)) }

HitRays ==
    { Ray(Zero, Vec3(Unit, 0, 0)),
      Ray(Zero, Vec3(2 * Unit, 0, 0)),
      Ray(Vec3(-Unit, 0, 0), Vec3(Unit, Unit, 0)),
      Ray(Zero, Vec3(0, Unit, 0)) }

HitTMin == {0, T_MIN, 2 * Unit}
HitTMax == {2 * Unit, 4 * Unit, F32_MAX}

SeqsUpTo(S, n) == UNION {[1..k -> S] : k \in 0..n}

\* A caller has just entered HittableList::hit.
InitHit ==
    /\ world \in SeqsUpTo(HitSpheres, MaxObjects)
    /\ ray \in HitRays
    /\ t_min \in HitTMin
    /\ t_max \in HitTMax
    /\ tmp_hit_record = HitRecordEmpty
    /\ hit_anything = FALSE
    /\ closest_so_far = t_max
    /\ idx = 1
    /\ hit_record = HitRecordEmpty
    /\ accepted = <<>>
    /\ last_hit = NoHit
    /\ pc = "scan"
    /\ bounce_limit = 0
    /\ stack = <<>>
    /\ ret = Zero
    /\ budget = 0
    /\ calls = 0
    /\ queries = 0
    /\ last_call = NoCall
    /\ args = NoArgs
    /\ result = NoArgs
    /\ RenderIdle

NextHit == HitScanStep \/ HitScanReturn

SpecHit == InitHit /\ [][NextHit]_vars

\* ---------------------------------------------------------------- ray_color
Blue == Vec3(Unit \div 2, (7 * Unit) \div 10, Unit)

\* The background: (1.0 - t) * white + t * blue, t = 0.5 * (unit_direction.y + 1.0)
Background(r) ==
    Bind(unit_vector(r.direction), LAMBDA unit_direction :
    Bind(FMul(Unit \div 2, unit_direction[2] + Unit), LAMBDA t :
        Add(Scale(Unit - t, White), Scale(t, Blue))))

\* A budget test that lets a budget of 0 through.
ExhaustedBelowZero(limit) == limit < 0

\* if bounce_limit <= 0 { return Color::zero(); }
Exhausted(limit) == limit <= 0

\* A recursive call that hands its own budget on.
NextLimitSame(limit) == limit

\* A recursive call that takes two from the budget.
NextLimitTwo(limit) == (limit - 2) % U16

\* bounce_limit - 1 on a u16.
NextLimit(limit) == (limit - 1) % U16

\* The cap on the history counter `calls`; ray_color never reaches it.
MaxCalls == MaxBounce + 3

\* The running call returns `color`.
Return(color, how, sc) ==
    /\ ret' = color
    /\ pc' = "returned"
    /\ last_call' = [made |-> TRUE, how |-> how, bounce_limit |-> bounce_limit,
                     ray |-> ray, color |-> color, rec |-> hit_record, sc |-> sc]

\* ray_color entered with the budget used up: it returns black.
RayColorExhausted ==
    /\ pc = "entry"
    /\ Exhausted(bounce_limit)
    /\ Return(Zero, "exhausted", NoArgs)
    /\ UNCHANGED <<world, ray, t_min, t_max, bounce_limit, stack, budget, calls,
                   queries>>
    /\ UNCHANGED scanVars
    /\ UNCHANGED unitVars
    /\ UNCHANGED renderVars

\* world.hit(ray, 0.001, f32::MAX, &mut hit_record): HittableList::hit is
\* entered, with the empty record ray_color created.
RayColorQuery ==
    /\ pc = "entry"
    /\ ~Exhausted(bounce_limit)
    /\ t_min' = T_MIN
    /\ t_max' = F32_MAX
    /\ ScanEntry(HitRecordEmpty)
    /\ pc' = "scan"
    /\ queries' = queries + 1
    /\ UNCHANGED <<world, ray, bounce_limit, stack, ret, budget, calls, last_call>>
    /\ UNCHANGED unitVars
    /\ UNCHANGED renderVars

\* The ray hit nothing: the background is returned.
RayColorMiss ==
    /\ pc = "scanned"
    /\ ~hit_anything
    /\ \E color \in {Background(ray)} : Return(color, "miss", NoArgs)
    /\ UNCHANGED <<world, ray, t_min, t_max, bounce_limit, stack, budget, calls,
                   queries>>
    /\ UNCHANGED scanVars
    /\ UNCHANGED unitVars
    /\ UNCHANGED renderVars

\* The material scattered the ray: ray_color calls itself on the scattered
\* ray, the caller waiting with its attenuation.
RayColorRecurse ==
    /\ pc = "scanned"
    /\ hit_anything
    /\ calls < MaxCalls
    /\ \E rnd \in ScatterDraws(hit_record.material) :
          \E sc \in {Scatter(hit_record.material, ray, hit_record, rnd)} :
              /\ sc.ok
              /\ stack' = Append(stack, [attenuation |-> sc.attenuation,
                                         bounce_limit |-> bounce_limit,
                                         ray |-> ray, rec |-> hit_record,
                                         sc |-> sc])
              /\ ray' = sc.scattered_ray
    /\ bounce_limit' = NextLimit(bounce_limit)
    /\ pc' = "entry"
    /\ calls' = calls + 1
    /\ UNCHANGED <<world, t_min, t_max, ret, budget, queries, last_call>>
    /\ UNCHANGED scanVars
    /\ UNCHANGED unitVars
    /\ UNCHANGED renderVars

\* The material absorbed the ray: the attenuation is returned.
RayColorAbsorbed ==
    /\ pc = "scanned"
    /\ hit_anything
    /\ \E rnd \in ScatterDraws(hit_record.material) :
          \E sc \in {Scatter(hit_record.material, ray, hit_record, rnd)} :
              /\ ~sc.ok
              /\ Return(sc.attenuation, "absorbed", sc)
    /\ UNCHANGED <<world, ray, t_min, t_max, bounce_limit, stack, budget, calls,
                   queries>>
    /\ UNCHANGED scanVars
    /\ UNCHANGED unitVars
    /\ UNCHANGED renderVars

\* The recursive call returned: return attenuation * ray_color(...).
RayColorResume ==
    /\ pc = "returned"
    /\ stack # <<>>
    /\ \E top \in {stack[Len(stack)]} :
       \E color \in {MulVec(top.attenuation, ret)} :
           /\ ret' = color
           /\ last_call' = [made |-> TRUE, how |-> "scattered",
                            bounce_limit |-> top.bounce_limit, ray |-> top.ray,
                            color |-> color, rec |-> top.rec, sc |-> top.sc,
                            callee |-> [bounce_limit |-> bounce_limit,
                                        ray |-> ray, color |-> ret]]
           /\ bounce_limit' = top.bounce_limit
           /\ ray' = top.ray
    /\ stack' = SubSeq(stack, 1, Len(stack) - 1)
    /\ UNCHANGED <<world, t_min, t_max, pc, budget, calls, queries>>
    /\ UNCHANGED scanVars
    /\ UNCHANGED unitVars
    /\ UNCHANGED renderVars

\* The outermost call has returned.
Done == pc = "returned" /\ stack = <<>>

\* The scenes: none, two facing mirrors, one sphere of each material.
Scenes ==
    { <<>>,
      << Sphere(Vec3(3 * Unit, 0, 0), Unit, MetalNew(White, 0)),
         Sphere(Vec3(-3 * Unit, 0, 0), Unit, MetalNew(Grey, 0)) >>,
      << Sphere(Vec3(3 * Unit, 0, 0), Unit, LambertianNew(Grey)),
         Sphere(Vec3(-3 * Unit, 0, 0), Unit, MetalNew(White, 2 * Unit)),
         Sphere(Vec3(0, 3 * Unit, 0), Unit, DielectricNew((3 * Unit) \div 2)) >> }

\* The rays the camera hands to ray_color.
CameraRays ==
    { Ray(Zero, Vec3(Unit, 0, 0)),
      Ray(Zero, Vec3(-Unit, 0, 0)),
      Ray(Zero, Vec3(0, Unit, 0)),
      Ray(Vec3(0, Unit - 2, 0), Vec3(-Unit, 0, 0)),
      Ray(Zero, Vec3(0, 0, Unit)) }

\* main has just called ray_color(rng, &ray, &world, budget).
Init ==
    /\ world \in Scenes
    /\ ray \in CameraRays
    /\ budget \in 0..MaxBounce
    /\ bounce_limit = budget
    /\ pc = "entry"
    /\ stack = <<>>
    /\ ret = Zero
    /\ calls = 1
    /\ queries = 0
    /\ last_call = NoCall
    /\ t_min = T_MIN
    /\ t_max = F32_MAX
    /\ tmp_hit_record = HitRecordEmpty
    /\ hit_anything = FALSE
    /\ closest_so_far = F32_MAX
    /\ idx = 1
    /\ hit_record = HitRecordEmpty
    /\ accepted = <<>>
    /\ last_hit = NoHit
    /\ args = NoArgs
    /\ result = NoArgs
    /\ RenderIdle

Next ==
    \/ RayColorExhausted
    \/ RayColorQuery
    \/ HitScanStep
    \/ HitScanReturn
    \/ RayColorMiss
    \/ RayColorRecurse
    \/ RayColorAbsorbed
    \/ RayColorResume

Spec == Init /\ [][Next]_vars

\* ray_color runs on one thread, which takes its next step whenever it has one.
FairSpec == Spec /\ WF_vars(Next)

\* ------------------------------------------------------- claims C1, C2, C10
C1_WithinBudget == calls <= budget + 1 /\ Len(stack) + 1 <= calls

\* C1: ray_color called with a bounce budget b >= 0 terminates after at most
\* b + 1 invocations of ray_color, the initial call included, whatever the
\* scene and the outcomes of the materials.
C1_TerminatesWithinBudget == []C1_WithinBudget /\ <>Done

\* C1's case: between two facing mirrors every hit scatters again, and the
\* outermost call has returned after exactly budget + 1 invocations.
C1_Witness ==
    /\ Done
    /\ budget = MaxBounce
    /\ calls = budget + 1
    /\ Len(world) = 2
    /\ \A i \in 1..Len(world) : world[i].material.kind = "Metal"

\* Some member of the scene is hit by ray r over ray_color's interval.
WouldHit(r) ==
    \E i \in 1..Len(world) : SphereHit(world[i], r, T_MIN, F32_MAX, HitRecordEmpty).hit

\* C2: ray_color called with bounce budget 0 returns black for every ray and
\* scene, and neither queries the scene nor asks a material to scatter: the
\* scene is queried, and a material asked, only by a call whose budget is
\* positive.
C2_BudgetZeroIsBlack ==
    /\ pc \in {"scan", "scanned"} => bounce_limit > 0
    /\ (last_call.made /\ last_call.bounce_limit = 0) =>
          (last_call.color = Zero /\ last_call.how = "exhausted")
    /\ (Done /\ budget = 0) => (ret = Zero /\ queries = 0 /\ calls = 1)

\* C2's case: the outermost call had budget 0 and a ray that hits a sphere
\* of the scene; it has returned black without a query.
C2_Witness ==
    /\ Done
    /\ budget = 0
    /\ WouldHit(ray)
    /\ ret = Zero
    /\ queries = 0

C10_Returns ==
    /\ (last_call.made /\ last_call.how = "absorbed") =>
          /\ last_call.rec.material.kind = "Metal"
          /\ ~last_call.sc.ok
          /\ last_call.color = last_call.sc.attenuation
          /\ last_call.color = last_call.rec.material.albedo
    /\ (last_call.made /\ last_call.how = "scattered") =>
          /\ last_call.sc.ok
          /\ last_call.color = MulVec(last_call.sc.attenuation, last_call.callee.color)
          /\ last_call.callee.ray = last_call.sc.scattered_ray
          /\ last_call.callee.bounce_limit = last_call.bounce_limit - 1
    /\ (last_call.made /\ last_call.how \in {"absorbed", "scattered"}) =>
          /\ last_call.bounce_limit >= 1
          /\ last_call.sc.ok =
                ~(/\ last_call.rec.material.kind = "Metal"
                  /\ Dot(last_call.sc.scattered_ray.direction,
                         last_call.rec.normal) <= 0)

\* A step in which the running call returns straight from the scatter call.
AbsorbStep == pc = "scanned" /\ hit_anything /\ pc' = "returned"

\* C10: when ray_color (budget >= 1) hits a surface whose material signals
\* absorption, which only Metal does, exactly when dot(scattered direction,
\* normal) <= 0, it returns the attenuation that material wrote, with no
\* recursive call and no further scene query; when the material returns a
\* continuation it returns attenuation * ray_color(scattered ray, budget - 1).
C10_AbsorbOrContinue ==
    /\ []C10_Returns
    /\ [][AbsorbStep =>
            (calls' = calls /\ queries' = queries /\ stack' = stack
             /\ ret' = last_call'.sc.attenuation)]_vars

\* C10's case: a Metal absorbed the ray of a call with budget >= 1, which
\* returned the albedo.
C10_Witness ==
    /\ last_call.made
    /\ last_call.how = "absorbed"
    /\ last_call.bounce_limit >= 1
    /\ Dot(last_call.sc.scattered_ray.direction, last_call.rec.normal) <= 0
    /\ ret = last_call.rec.material.albedo
    /\ ret # Zero

\* ------------------------------------------------------------ claims C3-C9
\* What a member reports on its own over the caller's [t_min, t_max].
Individually(s) == SphereHit(s, ray, t_min, t_max, HitRecordEmpty)

MembersHit == {i \in 1..Len(world) : Individually(world[i]).hit}

\* C3: HittableList::hit returns true exactly when some member reports a hit
\* in [t_min, t_max]; the record it outputs then has the least of the
\* distances the members report individually, and is the record (t, point,
\* normal, front_face, material) of a member that reports that distance.
C3_ListHitIsNearestMember ==
    pc = "scanned" =>
        /\ hit_anything = (MembersHit # {})
        /\ hit_anything =>
              /\ \A i \in MembersHit : hit_record.t <= Individually(world[i]).rec.t
              /\ \E i \in MembersHit : hit_record = Individually(world[i]).rec
        /\ ~hit_anything => hit_record = HitRecordEmpty

\* C3's case: a later member is farther than an earlier one, and the list
\* reports the earlier, nearer one.
C3_Witness ==
    /\ pc = "scanned"
    /\ hit_anything
    /\ \E i, j \in MembersHit :
          /\ i < j
          /\ Individually(world[i]).rec.t < Individually(world[j]).rec.t
          /\ hit_record = Individually(world[i]).rec

C4_Within ==
    /\ (last_hit.made /\ last_hit.hit) =>
          (last_hit.t_min <= last_hit.t /\ last_hit.t <= last_hit.t_max)
    /\ (pc = "scanned" /\ hit_anything) =>
          (t_min <= hit_record.t /\ hit_record.t <= t_max)
    /\ hit_anything => (t_min <= closest_so_far /\ closest_so_far <= t_max)

\* C4: whenever Sphere::hit or HittableList::hit returns true the t of the
\* output record lies in the caller's [t_min, t_max]; during a scan
\* closest_so_far never increases and, once a hit was accepted, stays in
\* [t_min, t_max].
C4_HitWithinInterval ==
    []C4_Within /\ [][closest_so_far' <= closest_so_far]_vars

\* C4's case: a query with a finite t_max that accepted two hits, the upper
\* bound shrinking each time.
C4_Witness ==
    /\ pc = "scanned"
    /\ t_max < F32_MAX
    /\ Len(accepted) >= 2
    /\ accepted[2] < accepted[1]
    /\ closest_so_far = accepted[2]

\* The root selection of the claim over an interval test In(root).
Selects(In(_), q, hit, t) ==
    IF In(Root1(q)) THEN hit /\ t = Root1(q)
    ELSE IF In(Root2(q)) THEN hit /\ t = Root2(q)
    ELSE ~hit

LastQuadratic == Quadratic(last_hit.sphere, ray)

\* C6 as claimed: Sphere::hit accepts the smaller root if it lies in the
\* open interval (t_min, t_max), otherwise the larger root if it lies in
\* (t_min, t_max), otherwise reports no hit.
C6_OpenInterval ==
    (last_hit.made /\ LastQuadratic.discriminant >= 0) =>
        LET In(r) == last_hit.t_min < r /\ r < last_hit.t_max
        IN  Selects(In, LastQuadratic, last_hit.hit, last_hit.t)

\* C6, amended: Sphere::hit accepts the smaller root if it lies in the closed
\* interval [t_min, t_max], otherwise the larger root if it lies in
\* [t_min, t_max], otherwise reports no hit; a root equal to t_min or to
\* t_max is accepted.
C6_ClosedInterval ==
    /\ (last_hit.made /\ LastQuadratic.discriminant >= 0) =>
          LET In(r) == last_hit.t_min <= r /\ r <= last_hit.t_max
          IN  Selects(In, LastQuadratic, last_hit.hit, last_hit.t)
    /\ (last_hit.made /\ LastQuadratic.discriminant < 0) => ~last_hit.hit

\* C6's case: both roots lie in the interval, the smaller one on its lower
\* end, and the smaller one is accepted.
C6_Witness ==
    /\ last_hit.made
    /\ last_hit.hit
    /\ LastQuadratic.discriminant > 0
    /\ Root1(LastQuadratic) = last_hit.t_min
    /\ Root2(LastQuadratic) < last_hit.t_max
    /\ last_hit.t = last_hit.t_min

\* C9 as claimed: a candidate is accepted only if its t is strictly smaller
\* than the t of every hit accepted so far in the query.
C9_StrictlyNearer ==
    \A i, j \in 1..Len(accepted) : j < i => accepted[i] < accepted[j]

\* C9, amended: a candidate is accepted only if its t is smaller than or
\* equal to the t of every hit accepted so far in the query, and the accepted
\* candidate overwrites the current best record; a later member whose hit
\* distance exactly equals the current best does replace it.
C9_NotFarther ==
    /\ \A i, j \in 1..Len(accepted) : j < i => accepted[i] <= accepted[j]
    /\ accepted # <<>> =>
          (hit_record = tmp_hit_record /\ hit_record.t = accepted[Len(accepted)])
    /\ (/\ last_hit.made
        /\ last_hit.had
        /\ Individually(last_hit.sphere).hit
        /\ Individually(last_hit.sphere).rec.t = last_hit.t_max) =>
          /\ last_hit.hit
          /\ hit_record.t = last_hit.t_max
          /\ hit_record.material = last_hit.sphere.material

\* C9's case: the second accepted hit is exactly as far as the first and has
\* replaced it, the record now carrying the later member's material.
C9_Witness ==
    /\ Len(accepted) = 2
    /\ accepted[2] = accepted[1]
    /\ Len(world) >= 2
    /\ world[1].material # world[2].material
    /\ idx = 3
    /\ hit_record.material = world[2].material

\* ----------------------------------------------------------- the unit harness
\* Directions and normals handed to the functions called on their own.
UnitDirections ==
    ({Vec3(x, y, z) : x \in {-Unit, 0, Unit}, y \in {-Unit, 0, Unit},
                      z \in {-Unit, 0, 2 * Unit}} \ {Zero})
        \cup {Vec3(-Unit, 0, 8 * Unit), Vec3(Unit, 0, 8 * Unit),
              Vec3(0, -Unit, 4 * Unit)}

UnitNormals ==
    { Vec3(Unit, 0, 0), Vec3(-Unit, 0, 0), Vec3(0, Unit, 0), Vec3(0, -Unit, 0),
      Vec3(0, 0, Unit), Vec3(0, 0, -Unit),
      unit_vector(Vec3(Unit, Unit, 0)), unit_vector(Vec3(-Unit, 0, -Unit)),
      unit_vector(Vec3(Unit, -Unit, Unit)) }

FuzzInputs == {-2 * Unit, -1, 0, Unit \div 2, Unit - 1, Unit, Unit + 1, 3 * Unit}

Albedos == {Grey, White}

InitUnit ==
    /\ world = <<>>
    /\ ray = Ray(Zero, Vec3(Unit, 0, 0))
    /\ t_min = T_MIN
    /\ t_max = F32_MAX
    /\ tmp_hit_record = HitRecordEmpty
    /\ hit_anything = FALSE
    /\ closest_so_far = F32_MAX
    /\ idx = 1
    /\ hit_record = HitRecordEmpty
    /\ accepted = <<>>
    /\ last_hit = NoHit
    /\ pc = "unit"
    /\ bounce_limit = 0
    /\ stack = <<>>
    /\ ret = Zero
    /\ budget = 0
    /\ calls = 0
    /\ queries = 0
    /\ last_call = NoCall
    /\ args = NoArgs
    /\ result = NoArgs
    /\ RenderIdle

\* The harness makes one call.
UnitFrame ==
    /\ pc' = "called"
    /\ UNCHANGED <<world, ray, t_min, t_max>>
    /\ UNCHANGED scanVars
    /\ UNCHANGED colorVars
    /\ UNCHANGED renderVars

\* hit_record.set_face_normal(&ray, &outward_normal)
CallSetFaceNormal ==
    /\ pc = "unit"
    /\ \E d \in UnitDirections, n \in UnitNormals :
          /\ args' = [fn |-> "set_face_normal", direction |-> d,
                      outward_normal |-> n]
          /\ result' = set_face_normal(HitRecordEmpty, Ray(Zero, d), n)
    /\ UnitFrame

\* Metal::new(albedo, fuzz)
CallMetalNew ==
    /\ pc = "unit"
    /\ \E a \in Albedos, f \in FuzzInputs :
          /\ args' = [fn |-> "Metal::new", albedo |-> a, fuzz |-> f]
          /\ result' = MetalNew(a, f)
    /\ UnitFrame

\* material.scatter(in_ray, hit_record, attenuation, scattered_ray, rng) of a
\* Lambertian, a Metal and a Dielectric, on a record with the normal facing
\* the ray the way set_face_normal leaves it.
CallScatter ==
    /\ pc = "unit"
    /\ \E d \in UnitDirections, n \in UnitNormals,
          m \in {LambertianNew(Grey), MetalNew(White, Unit \div 2),
                 DielectricNew((3 * Unit) \div 2), DielectricNew(Unit)} :
          \E in_ray \in {Ray(Zero, d)} :
          \E rec \in {set_face_normal(HitRecordEmpty, in_ray, n)} :
              \E rnd \in ScatterDraws(m) :
                 /\ args' = [fn |-> "scatter", material |-> m, in_ray |-> in_ray,
                             hit_record |-> rec, rnd |-> rnd]
                 /\ result' = Scatter(m, in_ray, rec, rnd)
    /\ UnitFrame

NextUnit == CallSetFaceNormal \/ CallMetalNew \/ CallScatter

SpecUnit == InitUnit /\ [][NextUnit]_vars

\* ------------------------------------------------------------ claims C5-C8
\* C5: after set_face_normal(ray, outward_normal) the stored normal has
\* dot(ray.direction, normal) <= 0; front_face is true exactly when
\* dot(ray.direction, outward_normal) < 0, and then normal = outward_normal,
\* and otherwise normal = -outward_normal.
C5_NormalFacesRay ==
    args.fn = "set_face_normal" =>
        LET d == Dot(args.direction, args.outward_normal)
        IN  /\ Dot(args.direction, result.normal) <= 0
            /\ result.front_face = (d < 0)
            /\ result.front_face => result.normal = args.outward_normal
            /\ ~result.front_face => result.normal = Neg(args.outward_normal)

\* C5's case: a ray that leaves through the surface, whose normal is flipped.
C5_Witness ==
    /\ args.fn = "set_face_normal"
    /\ Dot(args.direction, args.outward_normal) > 0
    /\ ~result.front_face
    /\ result.normal = Neg(args.outward_normal)
    /\ Dot(args.direction, result.normal) < 0

\* C7 as claimed: the fuzz Metal::new stores is clamped to [0, 1].
C7_FuzzClamped ==
    args.fn = "Metal::new" => (0 <= result.fuzz /\ result.fuzz <= Unit)

\* C7, amended: the fuzz Metal::new stores is at most 1: it is the fuzz
\* passed when that is below 1, negative values included, and 1 otherwise.
C7_FuzzClampedAbove ==
    args.fn = "Metal::new" =>
        /\ result.fuzz <= Unit
        /\ args.fuzz < Unit => result.fuzz = args.fuzz
        /\ args.fuzz >= Unit => result.fuzz = Unit
        /\ result.albedo = args.albedo

\* C7's case: a fuzz above 1 is stored as 1.
C7_Witness ==
    /\ args.fn = "Metal::new"
    /\ args.fuzz > Unit
    /\ result.kind = "Metal"
    /\ result.fuzz = Unit

\* C8: Lambertian scatter replaces the direction by the normal only when all
\* three components of normal + random unit vector are below epsilon in
\* magnitude; for every other sum the direction is exactly the sum; in both
\* cases it returns a continuation with attenuation equal to the albedo.
C8_FallbackOnlyNearZero ==
    (args.fn = "scatter" /\ args.material.kind = "Lambertian") =>
        LET sum == Add(args.hit_record.normal, args.rnd)
            near == Abs(sum[1]) < EPS /\ Abs(sum[2]) < EPS /\ Abs(sum[3]) < EPS
        IN  /\ result.ok
            /\ result.attenuation = args.material.albedo
            /\ result.scattered_ray.origin = args.hit_record.point
            /\ result.scattered_ray.direction =
                  IF near THEN args.hit_record.normal ELSE sum

\* ---------------------------------------------------------------- claim C11
\* The quantities Dielectric::scatter derives from the call recorded in args.
C11_Ratio ==
    IF args.hit_record.front_face
    THEN FDiv(Unit, args.material.refraction_index)
    ELSE FDiv(args.material.refraction_index, Unit)

C11_UnitDirection == unit_vector(args.in_ray.direction)

C11_Cos == FMin(Dot(Neg(C11_UnitDirection), args.hit_record.normal), Unit)

C11_Sin == FSqrt(Unit - FMul(C11_Cos, C11_Cos))

C11_Mirror == reflect(C11_UnitDirection, args.hit_record.normal)

C11_Bent ==
    IF args.hit_record.front_face
    THEN refract(C11_UnitDirection, args.hit_record.normal, Unit,
                 args.material.refraction_index)
    ELSE refract(C11_UnitDirection, args.hit_record.normal,
                 args.material.refraction_index, Unit)

C11_MustReflect ==
    \/ FMul(C11_Ratio, C11_Sin) > Unit
    \/ args.rnd < reflectance(C11_Cos, C11_Ratio)

\* C11: Dielectric scatter always returns a continuation with white
\* attenuation; the scattered direction is the mirror reflection exactly when
\* (src/dst) * sin(theta) > 1 or the value drawn is below the Schlick
\* reflectance, and the refracted direction otherwise; src/dst is
\* 1 / refraction_index on a front face and refraction_index / 1 otherwise.
C11_ReflectOrRefract ==
    (args.fn = "scatter" /\ args.material.kind = "Dielectric") =>
        /\ result.ok
        /\ result.attenuation = White
        /\ result.scattered_ray.origin = args.hit_record.point
        /\ result.scattered_ray.direction =
              IF C11_MustReflect THEN C11_Mirror ELSE C11_Bent
        /\ (result.scattered_ray.direction = C11_Mirror) <=> C11_MustReflect

\* C11's case: refraction is possible on a front face, and the value drawn is
\* below the reflectance, so the ray is reflected where it would have bent.
C11_Witness ==
    /\ args.fn = "scatter"
    /\ args.material.kind = "Dielectric"
    /\ args.hit_record.front_face
    /\ FMul(C11_Ratio, C11_Sin) <= Unit
    /\ 0 < args.rnd
    /\ args.rnd < reflectance(C11_Cos, C11_Ratio)
    /\ C11_Mirror # C11_Bent
    /\ result.ok
    /\ result.scattered_ray.direction = C11_Mirror

\* ---------------------------------------------------------------- claim C13
\* The budgets of the calls on the recursion path are b, b - 1, ... from the
\* outermost call inwards; every call that recursed had a budget of at least
\* 1, and the running call's budget lies in 0..b.
C13_Descending ==
    /\ bounce_limit = budget - Len(stack)
    /\ bounce_limit \in 0..budget
    /\ bounce_limit # U16 - 1
    /\ \A i \in 1..Len(stack) :
          /\ stack[i].bounce_limit = budget - (i - 1)
          /\ stack[i].bounce_limit >= 1

\* A recursive call is made only from a call whose budget is at least 1, and
\* it is made with that budget less one.
C13_RecurseStep ==
    Len(stack') > Len(stack) =>
        /\ bounce_limit >= 1
        /\ bounce_limit' = bounce_limit - 1

\* C13: the unsigned 16-bit bounce budget of ray_color never underflows: the
\* recursive call with bounce_limit - 1 is reached only where
\* bounce_limit >= 1, the budgets along a recursion path are b, b - 1, ...,
\* down to at most 0, and no call is made with the wrapped budget 65535.
C13_NoUnderflow == []C13_Descending /\ [][C13_RecurseStep]_vars

\* C13's case: the recursion ran the whole budget down, and the innermost
\* call, entered with budget 0, returned at once.
C13_Witness ==
    /\ pc = "returned"
    /\ last_call.made
    /\ last_call.how = "exhausted"
    /\ budget = MaxBounce
    /\ Len(stack) = budget
    /\ bounce_limit = 0
    /\ stack[Len(stack)].bounce_limit = 1

\* ---------------------------------------------------------- the render loop
\* The loop of main over rows, columns and samples, on an image scaled down.
\* A sample's camera ray and its ray_color call are taken as one step that
\* yields a radiance; write_pixel either appends the pixel to the output file
\* or fails, and `?` then leaves main with the error.  The output keeps which
\* pixel each line is of and the sample count it was scaled by.
IMAGE_WIDTH == 3

\* ((IMAGE_WIDTH as f32) / ASPECT_RATIO) as u16, with ASPECT_RATIO = 3 / 2.
IMAGE_HEIGHT == (IMAGE_WIDTH * 2) \div 3

SAMPLES_PER_PIXEL == 2

\* The colors ray_color hands back to the loop.
Radiances == {Zero, White, Blue}

\* The test of `for s in 0..SAMPLES_PER_PIXEL` that leaves one sample out.
SamplesLeftShort(n) == n < SAMPLES_PER_PIXEL - 1

\* The test of `for s in 0..SAMPLES_PER_PIXEL`: the range has a next sample.
SamplesLeft(n) == n < SAMPLES_PER_PIXEL

\* One entry of the history log.
Event(kind, n) == [kind |-> kind, row |-> row, col |-> col, s |-> n]

InitRender ==
    /\ pc = "rows"
    /\ row = IMAGE_HEIGHT
    /\ col = 0
    /\ sample = 0
    /\ pixel_color = Zero
    /\ output = <<>>
    /\ log = <<>>
    /\ world = <<>>
    /\ ray = Ray(Zero, Vec3(Unit, 0, 0))
    /\ t_min = T_MIN
    /\ t_max = F32_MAX
    /\ tmp_hit_record = HitRecordEmpty
    /\ hit_anything = FALSE
    /\ closest_so_far = F32_MAX
    /\ idx = 1
    /\ hit_record = HitRecordEmpty
    /\ accepted = <<>>
    /\ last_hit = NoHit
    /\ bounce_limit = 0
    /\ stack = <<>>
    /\ ret = Zero
    /\ budget = 0
    /\ calls = 0
    /\ queries = 0
    /\ last_call = NoCall
    /\ args = NoArgs
    /\ result = NoArgs

\* What the render loop leaves alone.
RenderFrame ==
    /\ UNCHANGED <<world, ray, t_min, t_max>>
    /\ UNCHANGED scanVars
    /\ UNCHANGED colorVars
    /\ UNCHANGED unitVars

\* for row in (0..IMAGE_HEIGHT).rev(): the reversed range yields its last row.
RenderNextRow ==
    /\ pc = "rows"
    /\ row > 0
    /\ row' = row - 1
    /\ col' = 0
    /\ pc' = "cols"
    /\ UNCHANGED <<sample, pixel_color, output, log>>
    /\ RenderFrame

\* The rows are exhausted: main returns Ok(()).
RenderDone ==
    /\ pc = "rows"
    /\ row = 0
    /\ pc' = "done"
    /\ UNCHANGED renderVars
    /\ RenderFrame

\* for col in 0..IMAGE_WIDTH: let mut pixel_color = Color::zero();
RenderNextCol ==
    /\ pc = "cols"
    /\ col < IMAGE_WIDTH
    /\ pixel_color' = Zero
    /\ sample' = 0
    /\ pc' = "samples"
    /\ UNCHANGED <<row, col, output, log>>
    /\ RenderFrame

\* The columns of the row are exhausted.
RenderRowEnd ==
    /\ pc = "cols"
    /\ col >= IMAGE_WIDTH
    /\ pc' = "rows"
    /\ UNCHANGED renderVars
    /\ RenderFrame

\* for s in 0..SAMPLES_PER_PIXEL: pixel_color += ray_color(...)
RenderSample ==
    /\ pc = "samples"
    /\ SamplesLeft(sample)
    /\ \E radiance \in Radiances : pixel_color' = Add(pixel_color, radiance)
    /\ log' = Append(log, Event("sample", sample))
    /\ sample' = sample + 1
    /\ UNCHANGED <<row, col, output, pc>>
    /\ RenderFrame

\* write_pixel(&mut output_file, &pixel_color, SAMPLES_PER_PIXEL) returns Ok.
RenderWritePixel ==
    /\ pc = "samples"
    /\ ~SamplesLeft(sample)
    /\ output' = Append(output, [row |-> row, col |-> col,
                                 samples_per_pixel |-> SAMPLES_PER_PIXEL])
    /\ log' = Append(log, Event("write", sample))
    /\ col' = col + 1
    /\ pc' = "cols"
    /\ UNCHANGED <<row, sample, pixel_color>>
    /\ RenderFrame

\* write_pixel returns Err: main returns "Failed to write pixel".
RenderWriteFails ==
    /\ pc = "samples"
    /\ ~SamplesLeft(sample)
    /\ pc' = "failed"
    /\ UNCHANGED renderVars
    /\ RenderFrame

NextRender ==
    \/ RenderNextRow
    \/ RenderDone
    \/ RenderNextCol
    \/ RenderRowEnd
    \/ RenderSample
    \/ RenderWritePixel
    \/ RenderWriteFails

SpecRender == InitRender /\ [][NextRender]_vars

\* ---------------------------------------------------------------- claim C12
\* The pixels of the image.
Pixels == (0..(IMAGE_HEIGHT - 1)) \X (0..(IMAGE_WIDTH - 1))

\* The positions of the log where pixel p was written, and where a sample of
\* it was taken.
WritesOf(p) ==
    {j \in 1..Len(log) : log[j].kind = "write" /\ <<log[j].row, log[j].col>> = p}

SamplesOf(p) ==
    {j \in 1..Len(log) : log[j].kind = "sample" /\ <<log[j].row, log[j].col>> = p}

\* Pixel p comes before pixel q in the nested order: rows outer, from the
\* last row to row 0, columns inner, from column 0 up.
Earlier(p, q) == p[1] > q[1] \/ (p[1] = q[1] /\ p[2] < q[2])

\* The pixels written, in the order of the output.
Written == [i \in 1..Len(output) |-> <<output[i].row, output[i].col>>]

\* C12: the render loop visits pixels in a fixed nested order (rows outer,
\* columns inner, samples innermost): each pixel is written once and never
\* again, its write comes only after all SAMPLES_PER_PIXEL samples of it have
\* been summed, no sample of a later pixel is taken before the earlier pixel
\* has been written, and when the loop ends without error every pixel of the
\* IMAGE_WIDTH x IMAGE_HEIGHT image has been written.
C12_RenderOrder ==
    /\ \A i, j \in 1..Len(log) :
          i < j => /\ ~Earlier(<<log[j].row, log[j].col>>, <<log[i].row, log[i].col>>)
                   /\ log[i].kind = "write" =>
                         <<log[i].row, log[i].col>> # <<log[j].row, log[j].col>>
                   /\ (log[j].kind = "sample"
                         /\ <<log[i].row, log[i].col>> = <<log[j].row, log[j].col>>)
                         => log[i].s < log[j].s
    /\ \A p \in Pixels :
          /\ Cardinality(WritesOf(p)) <= 1
          /\ Cardinality({i \in 1..Len(output) : Written[i] = p})
                = Cardinality(WritesOf(p))
          /\ \A j \in WritesOf(p) :
                /\ log[j].s = SAMPLES_PER_PIXEL
                /\ {log[k].s : k \in {i \in SamplesOf(p) : i < j}}
                      = 0..(SAMPLES_PER_PIXEL - 1)
                /\ Cardinality(SamplesOf(p)) = SAMPLES_PER_PIXEL
          /\ \A j \in SamplesOf(p) :
                \A q \in Pixels :
                    Earlier(q, p) => \E k \in WritesOf(q) : k < j
    /\ \A i \in 1..Len(output) :
          /\ Written[i] \in Pixels
          /\ output[i].samples_per_pixel = SAMPLES_PER_PIXEL
    /\ pc = "done" =>
          /\ \A p \in Pixels : Cardinality(WritesOf(p)) = 1
          /\ Len(output) = IMAGE_WIDTH * IMAGE_HEIGHT

\* C12's case: the loop ended without error, the whole image is in the
\* output, from the last row's first pixel to row 0's last, the last of
\* them with light in its sum.
C12_Witness ==
    /\ pc = "done"
    /\ Len(output) = IMAGE_WIDTH * IMAGE_HEIGHT
    /\ Len(log) = IMAGE_WIDTH * IMAGE_HEIGHT * (SAMPLES_PER_PIXEL + 1)
    /\ Written[1] = <<IMAGE_HEIGHT - 1, 0>>
    /\ Written[Len(output)] = <<0, IMAGE_WIDTH - 1>>
    /\ pixel_color # Zero

====
